---- MODULE Spec2Model ----
(***************************************************************************)
(* Whisper Notepad Simple: the audio capture pipeline (RecordingThread and  *)
(* the recording handlers of the application window) and the segmented      *)
(* transcription pipeline (TranscriptionThread), as implemented in          *)
(* whisper_notepad_simple.py and in the older v1/voice_notepad.py.          *)
(*                                                                          *)
(* Audio data is kept run-length encoded: a run [id, n] stands for the n    *)
(* frames of the batch that arrived as the id-th callback of the session;   *)
(* id 0 is silence (zeros).  An array is [runs, ndim], a WAV file is        *)
(* [runs, channels, rate].                                                  *)
(***************************************************************************)
EXTENDS Integers, Sequences, FiniteSets, TLC

(* ----------------------------- bounds ---------------------------------- *)
MaxBatches  == 3      \* callbacks delivered to one session
MaxSessions == 2      \* RecordingThread objects constructed in one run
MaxTmp      == 2      \* mkstemp files created by stop_recording in one run
MaxThreads  == 2      \* transcription and cleanup threads started in one run
MaxWindowBatches == 1 \* callbacks delivered to one session of a window run
MaxTimers   == 2      \* QTimer.singleShot calls pending at one time
MaxSegments == 4      \* segments of one transcription (larger plans left out)

(* ------------------------- program constants --------------------------- *)
FlushSeconds == 60
common_rates == <<48000, 44100, 16000, 8000>>
LastResortRate == 8000
FallbackRate == 16000
DefaultChannels == 1

Versions == {"simple", "v1"}

\* Input devices: default = 0 when device_info has no 'default_samplerate',
\* accepts = the rates check_input_settings accepts, query_ok = FALSE when
\* sd.query_devices raises.
Devices ==
  { [default |-> 16000, accepts |-> {16000}, query_ok |-> TRUE],
    [default |-> 0,     accepts |-> {8000},  query_ok |-> TRUE] }

\* Frame counts the device may deliver in one callback.
FrameChoices == {1600, 480000}

\* How opening the input stream may end: sd.InputStream(...) raises, or
\* stream.start() raises, or both succeed.
StartOutcomes == {"ok", "open_fails", "start_fails"}

(* ------------------------------ state ---------------------------------- *)
VARIABLES
  version,          \* which module is running: "simple" or "v1"
  rt,               \* the RecordingThread the window refers to (its fields)
  rt_made,          \* number of RecordingThread objects constructed
  orphans,          \* earlier RecordingThreads still holding an open stream
  disk,             \* files written in this session: name -> WAV content
  stale,            \* names of the files earlier sessions left on disk
  dirs,             \* temporary chunk directories that exist
  tmp_made,         \* number of mkstemp files created by stop_recording
  emitted,          \* signals emitted by the last operation, in order
  shown,            \* error dialogs shown by the last operation
  captured,         \* history: runs appended by the callback in this session
  batches,          \* history: callbacks delivered to this session
  io_fault,         \* history: an sf.write failed in this session
  last_op,          \* history: the operation that ran last
  ui,               \* the window's fields (WhisperNotepadApp / VoiceNotepadApp)
  tr,               \* the TranscriptionThread and the locals of its transcribe call
  tr_log,           \* history: progress, request, reply and signal events, in order
  plan              \* history: every file sent: its [start, end), size, compression

rec_vars == <<rt, rt_made, orphans, disk, stale, dirs, tmp_made, emitted, shown, captured,
              batches, io_fault, last_op, ui>>

tr_vars == <<tr, tr_log, plan>>

(* --------------------------- array helpers ----------------------------- *)
RECURSIVE NumFrames(_)
\* len(array): the number of frames of a run-length encoded array
NumFrames(runs) ==
  IF runs = <<>> THEN 0 ELSE Head(runs).n + NumFrames(Tail(runs))

RECURSIVE np_concatenate(_)
\* np.concatenate(list_of_batches, axis=0): the runs of the batches in order
np_concatenate(bs) ==
  IF bs = <<>> THEN <<>> ELSE <<Head(bs)>> \o np_concatenate(Tail(bs))

\* sf.write(path, data, rate): the file holds the frames, channel count, rate
\* a writer that stamps every file with the fallback rate
sf_write_fixed_rate(runs, channels, rate) ==
  [runs |-> runs, channels |-> channels, rate |-> 16000]

sf_write(runs, channels, rate) ==
  [runs |-> runs, channels |-> channels, rate |-> rate]

\* sf.read(path): a mono file comes back 1-D, a multi-channel file 2-D
sf_read(f) ==
  [runs |-> f.runs, ndim |-> IF f.channels = 1 THEN 1 ELSE 2]

EmptyFile == [runs |-> <<>>, channels |-> 0, rate |-> 0]

NoDisk == [x \in {} |-> EmptyFile]

\* A chunk name that does not depend on the number of chunks written
ChunkNameFixed(dir, i) == [kind |-> "chunk", dir |-> dir, idx |-> 0]

\* os.path.join(self.temp_dir, f"chunk_{len(self.chunk_files)}.wav")
ChunkName(dir, i) == [kind |-> "chunk", dir |-> dir, idx |-> i]
FinalName(k)      == [kind |-> "final", dir |-> 0, idx |-> k]

Put(d, name, f) ==
  [x \in (DOMAIN d) \cup {name} |-> IF x = name THEN f ELSE d[x]]
Remove(d, names) == [x \in (DOMAIN d) \ names |-> d[x]]

Range(s) == {s[i] : i \in 1..Len(s)}

NoPath == [kind |-> "none", dir |-> 0, idx |-> 0]

Err(msg) == [sig |-> "error", msg |-> msg]
Finished == [sig |-> "finished", msg |-> ""]

(* --------------------------- RecordingThread --------------------------- *)
\* RecordingThread.__init__: the fields of a new object; temp_dir is the
\* directory tempfile.mkdtemp() made for it.  No stream attribute yet;
\* stream_rate is the samplerate sd.InputStream was constructed with.
RecordingThread(dev, dir) ==
  [device |-> dev, sample_rate |-> FallbackRate, channels |-> DefaultChannels,
   recording |-> FALSE, paused |-> FALSE, stream |-> "none",
   stream_rate |-> 0, stop_seen |-> <<>>, current_chunk |-> <<>>, chunk_files |-> <<>>,
   temp_file_path |-> NoPath, temp_dir |-> dir]

RECURSIVE FirstAccepted(_, _)
\* the loop over common_rates: the first rate check_input_settings accepts
FirstAccepted(rates, accepts) ==
  IF rates = <<>> THEN LastResortRate
  ELSE IF Head(rates) \in accepts THEN Head(rates)
  ELSE FirstAccepted(Tail(rates), accepts)

\* a negotiation that skips the device's reported default rate
get_supported_sample_rate_no_default(dev) ==
  IF ~dev.query_ok THEN FallbackRate
  ELSE FirstAccepted(common_rates, dev.accepts)

\* default present: returned unprobed; else the loop; a query that raises: 16000
get_supported_sample_rate(dev) ==
  IF ~dev.query_ok THEN FallbackRate
  ELSE IF dev.default # 0 THEN dev.default
  ELSE FirstAccepted(common_rates, dev.accepts)

\* RecordingThread.start_recording: the flags are set before the stream is
\* opened; a failure to open or start it is caught and reported, nothing is
\* reset.
start_recording(t, outcome) ==
  LET t1 == [t EXCEPT !.recording = TRUE, !.paused = FALSE,
                      !.current_chunk = <<>>, !.chunk_files = <<>>,
                      !.sample_rate = get_supported_sample_rate(t.device)]
  IN  CASE outcome = "ok" ->
             [t |-> [t1 EXCEPT !.stream = "active",
                               !.stream_rate = t1.sample_rate], sig |-> <<>>]
        [] outcome = "start_fails" ->
             [t |-> [t1 EXCEPT !.stream = "created",
                               !.stream_rate = t1.sample_rate],
              sig |-> <<Err("Error starting recording")>>]
        [] OTHER ->
             [t |-> t1, sig |-> <<Err("Error starting recording")>>]

\* A pause that also drops what the accumulator holds
pause_recording_drops(t) == [t EXCEPT !.paused = TRUE, !.current_chunk = <<>>]

pause_recording(t) == [t EXCEPT !.paused = TRUE]

resume_recording(t) == [t EXCEPT !.paused = FALSE]

\* A flush that clears the accumulator before the write is known to have
\* succeeded
save_current_chunk_clear_first(t, d, wok) ==
  IF t.current_chunk = <<>> THEN [t |-> t, d |-> d, exc |-> FALSE, fault |-> FALSE]
  ELSE IF wok THEN
    LET name == ChunkName(t.temp_dir, Len(t.chunk_files))
    IN  [t |-> [t EXCEPT !.chunk_files = Append(@, name), !.current_chunk = <<>>],
         d |-> Put(d, name, sf_write(np_concatenate(t.current_chunk),
                                     t.channels, t.sample_rate)),
         exc |-> FALSE, fault |-> FALSE]
  ELSE [t |-> [t EXCEPT !.current_chunk = <<>>], d |-> d, exc |-> FALSE,
        fault |-> TRUE]

\* RecordingThread._save_current_chunk of whisper_notepad_simple.py: wok says
\* whether sf.write succeeds.  A failed write is printed and swallowed; the
\* accumulator is then left as it was.
save_current_chunk(t, d, wok) ==
  IF t.current_chunk = <<>> THEN [t |-> t, d |-> d, exc |-> FALSE, fault |-> FALSE]
  ELSE IF wok THEN
    LET name == ChunkName(t.temp_dir, Len(t.chunk_files))
    IN  [t |-> [t EXCEPT !.chunk_files = Append(@, name), !.current_chunk = <<>>],
         d |-> Put(d, name, sf_write(np_concatenate(t.current_chunk),
                                     t.channels, t.sample_rate)),
         exc |-> FALSE, fault |-> FALSE]
  ELSE [t |-> t, d |-> d, exc |-> FALSE, fault |-> TRUE]

\* RecordingThread._save_current_chunk of v1/voice_notepad.py: no guard and no
\* try; a failed write (or np.concatenate of nothing) raises to the caller.
v1_save_current_chunk(t, d, wok) ==
  IF t.current_chunk = <<>> THEN [t |-> t, d |-> d, exc |-> TRUE, fault |-> FALSE]
  ELSE IF wok THEN
    LET name == ChunkName(t.temp_dir, Len(t.chunk_files))
    IN  [t |-> [t EXCEPT !.chunk_files = Append(@, name), !.current_chunk = <<>>],
         d |-> Put(d, name, sf_write(np_concatenate(t.current_chunk),
                                     t.channels, t.sample_rate)),
         exc |-> FALSE, fault |-> FALSE]
  ELSE [t |-> t, d |-> d, exc |-> TRUE, fault |-> TRUE]

SaveChunk(ver, t, d, wok) ==
  IF ver = "v1" THEN v1_save_current_chunk(t, d, wok)
  ELSE save_current_chunk(t, d, wok)

\* The test of the callback: len(current_chunk) * frames / sample_rate >= 60,
\* the number of batches held times the frame count of the batch just
\* delivered.  Both sides are integers far below 2^53, so the float quotient
\* reaches 60 exactly when the product reaches 60 * sample_rate.
ChunkFull(t, frames) ==
  Len(t.current_chunk) * frames >= FlushSeconds * t.sample_rate

\* start_recording.callback: one batch of `frames` frames, the id-th of the
\* session.  An exception of the v1 flush leaves the callback; the stream
\* goes on.
callback(ver, t, d, frames, id, wok) ==
  IF t.recording /\ ~t.paused THEN
    LET t1 == [t EXCEPT !.current_chunk = Append(@, [id |-> id, n |-> frames])]
    IN  IF ChunkFull(t1, frames) THEN
          LET s == SaveChunk(ver, t1, d, wok)
          IN  [t |-> s.t, d |-> s.d, appended |-> TRUE, fault |-> s.fault]
        ELSE [t |-> t1, d |-> d, appended |-> TRUE, fault |-> FALSE]
  ELSE [t |-> t, d |-> d, appended |-> FALSE, fault |-> FALSE]

RECURSIVE ReadChunks(_, _)
\* the loop of stop_recording over chunk_files: sf.read of each file, the
\* arrays joined with np.concatenate in list order
ReadChunks(names, d) ==
  IF names = <<>> THEN <<>>
  ELSE sf_read(d[Head(names)]).runs \o ReadChunks(Tail(names), d)

\* the dimensions of the joined array: those sf.read gave the chunks
ReadNdim(names, d) == sf_read(d[names[1]]).ndim

\* int(0.5 * self.sample_rate)
MinDurationSamples(rate) == rate \div 2

\* np.concatenate((combined_data, silence_pad)) with
\* silence_pad = np.zeros((k, channels)), a 2-D array: numpy raises
\* ValueError unless combined_data is 2-D as well.
PadWithSilence(runs, ndim, k) ==
  IF ndim = 2 THEN [ok |-> TRUE, runs |-> runs \o <<[id |-> 0, n |-> k]>>]
  ELSE [ok |-> FALSE, runs |-> runs]

\* The part of stop_recording after the final flush when chunk_files is not
\* empty: mkstemp, assembly, padding, the write of the final waveform, the
\* signal, the removal of the chunk files.  k numbers the mkstemp file; wok says whether the write of
\* the final waveform succeeds.
AssembleChunks(t, d, dr, k, wok) ==
  LET d1    == Put(d, FinalName(k), EmptyFile)
      saveE == <<Err("Error saving recording")>>
  IN
  IF \E i \in 1..Len(t.chunk_files) : t.chunk_files[i] \notin DOMAIN d1 THEN
    [t |-> t, d |-> d1, dirs |-> dr, sig |-> saveE, fault |-> FALSE]
  ELSE
    LET runs  == ReadChunks(t.chunk_files, d1)
        ndim  == ReadNdim(t.chunk_files, d1)
        len   == NumFrames(runs)
        min   == MinDurationSamples(t.sample_rate)
        pad   == IF len < min THEN PadWithSilence(runs, ndim, min - len)
                 ELSE [ok |-> TRUE, runs |-> runs]
        clean == Remove(d1, Range(t.chunk_files))
    IN
    IF len > 0 THEN
      IF ~pad.ok THEN
        [t |-> t, d |-> d1, dirs |-> dr, sig |-> saveE, fault |-> FALSE]
      ELSE IF ~wok THEN
        [t |-> t, d |-> d1, dirs |-> dr, sig |-> saveE, fault |-> TRUE]
      ELSE
        [t |-> [t EXCEPT !.temp_file_path = FinalName(k)],
         d |-> Remove(Put(d1, FinalName(k),
                          sf_write(pad.runs, t.channels, t.sample_rate)),
                      Range(t.chunk_files)),
         dirs |-> dr \ {t.temp_dir},
         sig |-> <<Finished>>, fault |-> FALSE]
    ELSE
      [t |-> t, d |-> clean, dirs |-> dr \ {t.temp_dir},
       sig |-> <<Err("No audio recorded or recording too short")>>,
       fault |-> FALSE]

\* An assembly that takes an empty chunk list for an empty recording and
\* hands the empty mkstemp file on as the final waveform
AssembleEmptyAsFinal(t, d, dr, k, wok) ==
  IF t.chunk_files = <<>> THEN
    [t |-> [t EXCEPT !.temp_file_path = FinalName(k)],
     d |-> Put(d, FinalName(k), EmptyFile), dirs |-> dr,
     sig |-> <<Finished>>, fault |-> FALSE]
  ELSE AssembleChunks(t, d, dr, k, wok)

\* stop_recording after the final flush: mkstemp, then `if self.chunk_files`
\* with its else branch "No audio recorded"
Assemble(t, d, dr, k, wok) ==
  IF t.chunk_files = <<>> THEN
    [t |-> t, d |-> Put(d, FinalName(k), EmptyFile), dirs |-> dr,
     sig |-> <<Err("No audio recorded")>>, fault |-> FALSE]
  ELSE AssembleChunks(t, d, dr, k, wok)

\* a stop_recording that leaves the stream as it is
close_stream_skipped(t) == t

\* stop_recording: self.stream.stop(); self.stream.close()
close_stream(t) == [t EXCEPT !.stream = "closed"]

\* History of one stop_recording call: a step it took, with the state of the
\* stream when it took it
Seen(step, t) == [step |-> step, stream |-> t.stream]

\* RecordingThread.stop_recording.  stream.stop() and stream.close() ignore
\* errors, so they also pass on a stream that never started or is closed.
\* wokc / wokf: whether the write of the trailing chunk / of the final
\* waveform succeeds.  made = 1 when mkstemp was reached.
stop_recording(ver, t, d, dr, k, wokc, wokf) ==
  IF t.stream = "none" THEN
    [t |-> t, d |-> d, dirs |-> dr,
     sig |-> IF ver = "v1" THEN <<Err("No recording stream found")>> ELSE <<>>,
     fault |-> FALSE, made |-> 0]
  ELSE
    LET t1 == close_stream([t EXCEPT !.recording = FALSE, !.paused = FALSE,
                                     !.stop_seen = <<>>])
        s  == IF t1.current_chunk # <<>> THEN SaveChunk(ver, t1, d, wokc)
              ELSE [t |-> t1, d |-> d, exc |-> FALSE, fault |-> FALSE]
        fl == IF t1.current_chunk # <<>> THEN <<Seen("flush", t1)>> ELSE <<>>
    IN  IF s.exc THEN
          [t |-> [s.t EXCEPT !.stop_seen = fl \o <<Seen("signal", s.t)>>],
           d |-> s.d, dirs |-> dr,
           sig |-> <<Err("Error saving recording")>>,
           fault |-> s.fault, made |-> 0]
        ELSE
          LET a  == Assemble(s.t, s.d, dr, k, wokf)
              rd == IF s.t.chunk_files # <<>> THEN <<Seen("read", s.t)>>
                    ELSE <<>>
          IN  [t |-> [a.t EXCEPT !.stop_seen = fl \o rd \o <<Seen("signal", a.t)>>],
               d |-> a.d, dirs |-> a.dirs, sig |-> a.sig,
               fault |-> s.fault \/ a.fault, made |-> 1]

(* ------------------ the window: recording handlers --------------------- *)
RECURSIVE Messages(_)
\* show_error is connected to the error signal: one dialog per error emitted
Messages(sigs) ==
  IF sigs = <<>> THEN <<>>
  ELSE (IF Head(sigs).sig = "error" THEN <<Head(sigs).msg>> ELSE <<>>)
       \o Messages(Tail(sigs))

HasFinished(sigs) == \E i \in 1..Len(sigs) : sigs[i].sig = "finished"

\* QTimer.singleShot(500, slot), kept with the final waveform of the stop
\* that registered it (NoPath when that stop produced none)
SingleShot(slot, path) == [call |-> slot, stopped |-> path]

\* WhisperNotepadApp.on_recording_finished, run inside finished.emit().
\* handed is a history of every path temp_audio_file was given; timers are
\* the QTimer.singleShot calls not yet fired.
on_recording_finished(u, t) ==
  IF t.temp_file_path # NoPath THEN
    [u EXCEPT !.temp_audio_file = t.temp_file_path,
              !.handed = @ \cup {t.temp_file_path},
              !.record_button = TRUE, !.pause_button = FALSE,
              !.stop_button = FALSE, !.timer = FALSE,
              !.stop_and_transcribe_button = FALSE,
              !.clear_recording_button = TRUE,
              !.transcribe_button = TRUE,
              !.timers = IF u.auto_transcribe_checkbox
                           THEN Append(@, SingleShot("transcribe_audio",
                                                     t.temp_file_path))
                           ELSE @,
              !.recording_thread = FALSE]
  ELSE
    [u EXCEPT !.record_button = TRUE, !.pause_button = FALSE,
              !.stop_button = FALSE, !.recording_thread = FALSE]

\* VoiceNotepadApp.on_recording_finished (v1): recording_thread is kept
v1_on_recording_finished(u, t) ==
  [u EXCEPT !.record_button = TRUE, !.pause_button = FALSE,
            !.stop_button = FALSE, !.temp_audio_file = t.temp_file_path]

\* WhisperNotepadApp.start_recording (button or F5) with a device selected
StartRecording ==
  /\ version = "simple"
  /\ ~ui.closed
  /\ ~ui.recording_thread
  /\ rt_made < MaxSessions
  /\ \E dev \in Devices, outcome \in StartOutcomes :
       LET r == start_recording(RecordingThread(dev, rt_made + 1), outcome)
       IN  /\ rt' = r.t
           /\ emitted' = r.sig
           /\ shown' = Messages(r.sig)
  /\ rt_made' = rt_made + 1
  /\ dirs' = dirs \cup {rt_made + 1}
  /\ ui' = [ui EXCEPT !.recording_thread = TRUE, !.record_button = FALSE,
                      !.pause_button = TRUE, !.stop_button = TRUE,
                      !.stop_and_transcribe_button = TRUE,
                      !.clear_recording_button = FALSE,
                      !.transcribe_button = FALSE,
                      !.is_recording = TRUE, !.is_paused = FALSE,
                      !.timer = TRUE]
  /\ captured' = <<>>
  /\ batches' = 0
  /\ io_fault' = FALSE
  /\ last_op' = "start"
  /\ stale' = stale \cup DOMAIN disk
  /\ disk' = NoDisk
  /\ UNCHANGED <<tr_vars, version, orphans, tmp_made>>

\* WhisperNotepadApp.start_recording when the device list is empty
NoDeviceSelected ==
  /\ version = "simple"
  /\ ~ui.closed
  /\ ~ui.recording_thread
  /\ emitted' = <<>>
  /\ shown' = <<"No audio device selected">>
  /\ last_op' = "no_device"
  /\ UNCHANGED <<tr_vars, version, rt, rt_made, orphans, disk, stale, dirs, tmp_made,
                 captured, batches, io_fault, ui>>

\* WhisperNotepadApp.pause_recording (button or F6): pauses or resumes
PauseRecording ==
  /\ version = "simple"
  /\ ~ui.closed
  /\ ui.recording_thread
  /\ IF ~ui.is_paused
       THEN /\ rt' = pause_recording(rt)
            /\ ui' = [ui EXCEPT !.is_paused = TRUE, !.timer = FALSE]
            /\ last_op' = "pause"
       ELSE /\ rt' = resume_recording(rt)
            /\ ui' = [ui EXCEPT !.is_paused = FALSE, !.timer = TRUE]
            /\ last_op' = "resume"
  /\ emitted' = <<>>
  /\ shown' = <<>>
  /\ UNCHANGED <<tr_vars, version, rt_made, orphans, disk, stale, dirs, tmp_made, captured,
                 batches, io_fault>>

\* WhisperNotepadApp.stop_recording and stop_and_transcribe, with the handlers
\* the signals of RecordingThread.stop_recording run.  stop_and_transcribe
\* differs only by its QTimer.singleShot(500, self.check_and_transcribe).
StopHandler(and_transcribe) ==
  /\ version = "simple"
  /\ ~ui.closed
  /\ ui.recording_thread
  /\ tmp_made < MaxTmp
  /\ Len(ui.timers) + 2 <= MaxTimers
  /\ \E wokc \in BOOLEAN, wokf \in BOOLEAN :
       LET r == stop_recording(version, rt, disk, dirs, tmp_made + 1, wokc, wokf)
           u == [ui EXCEPT !.timer = FALSE]
           v == IF HasFinished(r.sig) THEN on_recording_finished(u, r.t) ELSE u
       IN  /\ rt' = r.t
           /\ disk' = r.d
           /\ dirs' = r.dirs
           /\ emitted' = r.sig
           /\ shown' = Messages(r.sig)
           /\ tmp_made' = tmp_made + r.made
           /\ io_fault' = (io_fault \/ r.fault)
           /\ ui' = IF and_transcribe
                      THEN [v EXCEPT !.timers =
                              Append(@, SingleShot("check_and_transcribe",
                                                   IF HasFinished(r.sig)
                                                     THEN r.t.temp_file_path
                                                     ELSE NoPath))]
                      ELSE v
  /\ last_op' = "stop"
  /\ UNCHANGED <<tr_vars, version, rt_made, orphans, stale, captured, batches>>

\* WhisperNotepadApp.stop_recording (button or F7)
StopRecording == StopHandler(FALSE)

\* WhisperNotepadApp.stop_and_transcribe (button or F8)
StopAndTranscribe == StopHandler(TRUE)

\* The audio callback of the open stream delivers one batch, the session
\* having had fewer than max so far.  status: the device reports a stream
\* error with the batch, which the callback prints and otherwise ignores.
Callback(max) ==
  /\ rt.stream = "active"
  /\ ~ui.closed
  /\ batches < max
  /\ \E frames \in FrameChoices, wok \in BOOLEAN, status \in BOOLEAN :
       LET r == callback(version, rt, disk, frames, batches + 1, wok)
       IN  /\ last_op' = IF status THEN "callback_status" ELSE "callback"
           /\ rt' = r.t
           /\ disk' = r.d
           /\ io_fault' = (io_fault \/ r.fault)
           /\ captured' = IF r.appended
                            THEN Append(captured, [id |-> batches + 1, n |-> frames])
                            ELSE captured
  /\ batches' = batches + 1
  /\ emitted' = <<>>
  /\ shown' = <<>>
  /\ UNCHANGED <<tr_vars, version, rt_made, orphans, stale, dirs, tmp_made, ui>>

AudioCallback == Callback(MaxBatches)

\* The same callback in the runs of the whole window
WindowAudioCallback == Callback(MaxWindowBatches)

\* VoiceNotepadApp.start_recording (v1, Record button): a new RecordingThread
\* replaces the one referred to, whatever its state
V1StartRecording ==
  /\ version = "v1"
  /\ ui.record_button
  /\ rt_made < MaxSessions
  /\ \E dev \in Devices, outcome \in StartOutcomes :
       LET r == start_recording(RecordingThread(dev, rt_made + 1), outcome)
       IN  /\ rt' = r.t
           /\ emitted' = r.sig
           /\ shown' = Messages(r.sig)
  /\ orphans' = IF rt.stream = "active" THEN orphans + 1 ELSE orphans
  /\ rt_made' = rt_made + 1
  /\ dirs' = dirs \cup {rt_made + 1}
  /\ ui' = [ui EXCEPT !.recording_thread = TRUE, !.record_button = FALSE,
                      !.pause_button = TRUE, !.stop_button = TRUE,
                      !.timer = TRUE]
  /\ captured' = <<>>
  /\ batches' = 0
  /\ io_fault' = FALSE
  /\ last_op' = "start"
  /\ stale' = stale \cup DOMAIN disk
  /\ disk' = NoDisk
  /\ UNCHANGED <<tr_vars, version, tmp_made>>

\* VoiceNotepadApp.pause_recording (v1, Pause button)
V1PauseRecording ==
  /\ version = "v1"
  /\ ui.pause_button
  /\ ui.recording_thread /\ rt.recording
  /\ rt' = pause_recording(rt)
  /\ ui' = [ui EXCEPT !.record_button = TRUE, !.pause_button = FALSE]
  /\ emitted' = <<>>
  /\ shown' = <<>>
  /\ last_op' = "pause"
  /\ UNCHANGED <<tr_vars, version, rt_made, orphans, disk, stale, dirs, tmp_made, captured,
                 batches, io_fault>>

\* VoiceNotepadApp.stop_recording (v1, Stop button)
V1StopRecording ==
  /\ version = "v1"
  /\ ui.stop_button
  /\ ui.recording_thread /\ rt.recording
  /\ tmp_made < MaxTmp
  /\ \E wokc \in BOOLEAN, wokf \in BOOLEAN :
       LET r == stop_recording(version, rt, disk, dirs, tmp_made + 1, wokc, wokf)
           u == [ui EXCEPT !.timer = FALSE]
       IN  /\ rt' = r.t
           /\ disk' = r.d
           /\ dirs' = r.dirs
           /\ emitted' = r.sig
           /\ shown' = Messages(r.sig)
           /\ tmp_made' = tmp_made + r.made
           /\ io_fault' = (io_fault \/ r.fault)
           /\ ui' = IF HasFinished(r.sig) THEN v1_on_recording_finished(u, r.t)
                    ELSE u
  /\ last_op' = "stop"
  /\ UNCHANGED <<tr_vars, version, rt_made, orphans, stale, captured, batches>>

(* ---------------- the window: the final waveform file ------------------ *)
\* os.path.exists on a path of the model
Exists(path) == path \in DOMAIN disk \/ path \in stale

\* What one run of TranscriptionThread.transcribe signals once the key and the
\* file were found: finished with a text, finished with "", error alone
\* (direct path), or error followed by finished("") (split path)
TranscribeOutcomes == {"text", "empty", "error", "error_empty"}

\* WhisperNotepadApp.transcribe_audio: the new window state and the dialogs
transcribe_audio(u) ==
  IF u.temp_audio_file = NoPath THEN
    [u |-> u, shown |-> <<"No recording to transcribe.">>]
  ELSE IF ~u.api_key THEN
    [u |-> u, shown |-> <<"OpenAI API key is not set">>]
  ELSE
    [u |-> [u EXCEPT !.transcribe_button = FALSE,
                     !.threads_made = @ + 1,
                     !.threads = @ \cup {[id |-> u.threads_made + 1,
                                           kind |-> "transcription",
                                           file |-> u.temp_audio_file,
                                           pc |-> "new"]}],
     shown |-> <<>>]

\* WhisperNotepadApp.check_and_transcribe
check_and_transcribe(u) ==
  IF u.temp_audio_file # NoPath THEN transcribe_audio(u)
  ELSE [u |-> u, shown |-> <<>>]

\* WhisperNotepadApp.cleanup_text, for the transcript of thread th
cleanup_text(u, th, empty) ==
  IF empty THEN [u |-> u, shown |-> <<"No text to clean up">>]
  ELSE [u |-> [u EXCEPT !.threads = @ \cup {[th EXCEPT !.kind = "cleanup",
                                                        !.pc = "running"]}],
        shown |-> <<>>]

\* WhisperNotepadApp.on_transcription_finished: the file is left in place
on_transcription_finished(u, th, empty) ==
  LET u1 == [u EXCEPT !.transcribe_button = TRUE]
  IN  IF u1.cleanup_checkbox THEN cleanup_text(u1, th, empty)
      ELSE [u |-> u1, shown |-> <<>>]

\* The window's handlers that leave the recording session alone
WindowFrame ==
  /\ emitted' = <<>>
  /\ UNCHANGED <<tr_vars, version, rt, rt_made, orphans, dirs, tmp_made,
                 captured, batches, io_fault>>

\* WhisperNotepadApp.clear_recording (Clear Recording button)
ClearRecording ==
  /\ version = "simple"
  /\ ~ui.closed
  /\ ui.clear_recording_button
  /\ ui' = [ui EXCEPT !.temp_audio_file = NoPath,
                      !.transcribe_button = FALSE,
                      !.clear_recording_button = FALSE]
  /\ shown' = <<>>
  /\ last_op' = "clear"
  /\ UNCHANGED <<disk, stale>>
  /\ WindowFrame

\* WhisperNotepadApp.transcribe_audio (Transcribe button or Ctrl+T)
TranscribeAudio ==
  /\ version = "simple"
  /\ ~ui.closed
  /\ ui.threads_made < MaxThreads
  /\ LET r == transcribe_audio(ui)
     IN  /\ ui' = r.u
         /\ shown' = r.shown
  /\ last_op' = "transcribe"
  /\ UNCHANGED <<disk, stale>>
  /\ WindowFrame

\* A QTimer.singleShot fires: transcribe_audio (Auto-Transcribe) or
\* check_and_transcribe (Stop & Transcribe)
TimerFires ==
  /\ version = "simple"
  /\ ~ui.closed
  /\ ui.timers # <<>>
  /\ ui.threads_made < MaxThreads
  /\ LET u == [ui EXCEPT !.timers = Tail(@)]
         r == IF Head(ui.timers).call = "transcribe_audio"
                THEN transcribe_audio(u) ELSE check_and_transcribe(u)
     IN  /\ ui' = r.u
         /\ shown' = r.shown
  /\ last_op' = "timer"
  /\ UNCHANGED <<disk, stale>>
  /\ WindowFrame

\* TranscriptionThread.transcribe begins: the key was checked by the window;
\* a missing file ends the run with the error signal alone
TranscriptionStarts ==
  /\ version = "simple"
  /\ ~ui.closed
  /\ \E th \in ui.threads :
       /\ th.kind = "transcription"
       /\ th.pc = "new"
       /\ IF Exists(th.file)
            THEN /\ ui' = [ui EXCEPT !.threads =
                             (@ \ {th}) \cup {[th EXCEPT !.pc = "running"]}]
                 /\ shown' = <<>>
            ELSE /\ ui' = [ui EXCEPT !.threads = @ \ {th}]
                 /\ shown' = <<"Audio file not found">>
  /\ last_op' = "transcription_starts"
  /\ UNCHANGED <<disk, stale>>
  /\ WindowFrame

\* TranscriptionThread.transcribe ends and the window handles its signals
TranscriptionEnds ==
  /\ version = "simple"
  /\ ~ui.closed
  /\ \E th \in ui.threads, outcome \in TranscribeOutcomes :
       /\ th.kind = "transcription"
       /\ th.pc = "running"
       /\ LET u   == [ui EXCEPT !.threads = @ \ {th}]
              err == IF outcome \in {"error", "error_empty"}
                       THEN <<"Error during transcription">> ELSE <<>>
              r   == IF outcome = "error" THEN [u |-> u, shown |-> <<>>]
                     ELSE on_transcription_finished(u, th, outcome # "text")
          IN  /\ ui' = r.u
              /\ shown' = err \o r.shown
  /\ last_op' = "transcription_ends"
  /\ UNCHANGED <<disk, stale>>
  /\ WindowFrame

\* CleanupThread.cleanup ends: on_cleanup_finished removes whatever
\* temp_audio_file names now; an error is only shown
CleanupEnds ==
  /\ version = "simple"
  /\ ~ui.closed
  /\ \E th \in ui.threads, ok \in BOOLEAN :
       /\ th.kind = "cleanup"
       /\ LET u == [ui EXCEPT !.threads = @ \ {th}]
          IN  IF ok /\ u.temp_audio_file # NoPath /\ Exists(u.temp_audio_file)
                THEN /\ disk' = Remove(disk, {u.temp_audio_file})
                     /\ stale' = stale \ {u.temp_audio_file}
                     /\ ui' = [u EXCEPT !.temp_audio_file = NoPath]
                     /\ shown' = <<>>
                ELSE /\ UNCHANGED <<disk, stale>>
                     /\ ui' = u
                     /\ shown' = IF ok THEN <<>>
                                 ELSE <<"Error during GPT cleanup">>
  /\ last_op' = "cleanup_ends"
  /\ WindowFrame

\* WhisperNotepadApp.closeEvent: removes the file temp_audio_file names
CloseEvent ==
  /\ version = "simple"
  /\ ~ui.closed
  /\ IF ui.temp_audio_file # NoPath /\ Exists(ui.temp_audio_file)
       THEN /\ disk' = Remove(disk, {ui.temp_audio_file})
            /\ stale' = stale \ {ui.temp_audio_file}
       ELSE UNCHANGED <<disk, stale>>
  /\ ui' = [ui EXCEPT !.closed = TRUE]
  /\ shown' = <<>>
  /\ last_op' = "close"
  /\ WindowFrame

(* ------------------------- TranscriptionThread ------------------------- *)
MB == 1024 * 1024

\* Size in bytes of a WAV file as sf.write makes it (16-bit PCM, 44-byte header)
WavBytes(frames, channels) == 44 + 2 * frames * channels

Min(a, b) == IF a < b THEN a ELSE b

\* Final waveforms handed to a TranscriptionThread: mono recordings
AudioFiles ==
  { [frames |-> 8000,     rate |-> 16000],
    [frames |-> 10000000, rate |-> 16000],
    [frames |-> 10000000, rate |-> 8000],
    [frames |-> 10000000, rate |-> 2000],
    [frames |-> 10485600, rate |-> 17476],
    [frames |-> 13000000, rate |-> 16000],
    [frames |-> 14400000, rate |-> 16000],
    [frames |-> 14401000, rate |-> 16000],
    [frames |-> 15728640, rate |-> 16000],
    [frames |-> 15728640, rate |-> 48000],
    [frames |-> 13200000, rate |-> 96000],
    [frames |-> 17280000, rate |-> 96000],
    [frames |-> 17290000, rate |-> 96000],
    [frames |-> 30000000, rate |-> 96000] }

\* What the transcription service may answer to one request: a text (a
\* sequence of characters, possibly empty), a reply without a text
\* attribute, or a failure of the request (an exception).
Texts == { <<>>, <<"a">>, <<"b">> }
Replies ==
  [kind : {"text"}, text : Texts]
    \cup { [kind |-> "malformed", text |-> <<>>], [kind |-> "fail", text |-> <<>>] }

RECURSIVE SpaceJoin(_)
\* " ".join(list)
SpaceJoin(list) ==
  IF list = <<>> THEN <<>>
  ELSE IF Len(list) = 1 THEN Head(list)
  ELSE Head(list) \o <<" ">> \o SpaceJoin(Tail(list))

\* transcribe of whisper_notepad_simple.py: file_size > 23 (MB)
is_large(bytes) == bytes > 23 * MB

\* transcribe of v1: file_size > MAX_FILE_SIZE
v1_is_large(bytes) == bytes > 25 * MB

\* _compress_audio: target_size_mb * 8 * 1024, the target in kilobits
TargetKbit == 15 * 8 * 1024

\* int((target_size_mb * 8 * 1024) / duration) with duration = len(data) /
\* sample_rate: the whole part of TargetKbit * rate / frames, taken in three
\* divisions (1024, 8, 15) that keep every product within 32 bits
bitrate_quotient(frames, rate) ==
  LET x  == rate * 1024
      q1 == x \div frames
      r1 == x % frames
      y  == 8 * r1
      q2 == y \div frames
      r2 == y % frames
  IN  120 * q1 + 15 * q2 + ((15 * r2) \div frames)

\* a bitrate handed to the encoder as computed, without the clamp
target_bitrate_unclamped(frames, rate) == bitrate_quotient(frames, rate)

\* _compress_audio: target_bitrate = max(32, min(128, target_bitrate))
target_bitrate(frames, rate) ==
  LET b == bitrate_quotient(frames, rate)
  IN  IF b > 128 THEN 128 ELSE IF b < 32 THEN 32 ELSE b

\* What subprocess.run(['ffmpeg', ...]) can do: the program is not found
\* (the call raises and the empty file of mkstemp stays), or it runs, exits
\* with or without failure, and leaves no, an empty or a non-empty output
EncoderOutcomes ==
  {[found |-> FALSE, exit_ok |-> FALSE, output |-> "empty"]} \cup
  {[found |-> TRUE, exit_ok |-> e, output |-> o] :
     e \in BOOLEAN, o \in {"missing", "empty", "data"}}

\* the encoder was not invoked
NoEncoder == [found |-> FALSE, exit_ok |-> FALSE, output |-> "missing"]

\* the test after subprocess.run: the output exists and is not empty
enc_ok(enc) == enc.found /\ enc.output = "data"

\* _compress_audio: the path returned
compress_audio(bytes, enc) ==
  IF bytes <= 15 * MB THEN "original"
  ELSE IF enc_ok(enc) THEN "compressed" ELSE "original"

\* History of one _compress_audio call: whether it ran the encoder (only
\* whisper_notepad_simple.py has it, and only above the target) and how that
\* ended
encoder_run(ver, bytes, enc) ==
  IF ver = "v1" \/ bytes <= 15 * MB THEN "not_run"
  ELSE IF enc_ok(enc) THEN "ok" ELSE "failed"

\* what the encoder did in that call
encoder_outcome(ver, bytes, enc) ==
  IF encoder_run(ver, bytes, enc) = "not_run" THEN NoEncoder ELSE enc

\* the '-b:a' argument of that call in kbps, 0 when no command was built
encoder_bitrate(ver, bytes, frames, rate) ==
  IF ver = "v1" \/ bytes <= 15 * MB THEN 0 ELSE target_bitrate(frames, rate)

\* A segment length of one minute
chunk_size_one_minute(rate) == 60 * rate

\* _transcribe_large_file: chunk_size = int(chunk_duration * sample_rate)
chunk_size(rate) == (5 * 60) * rate

\* v1: chunk_duration = 60, used as chunk_duration * sr
v1_chunk_size(rate) == 60 * rate

\* A count that rounds down: the samples after the last full segment get no
\* segment
num_chunks_floor(total, cs) == total \div cs

\* num_chunks = (total_samples + chunk_size - 1) // chunk_size
num_chunks(total, cs) == (total + cs - 1) \div cs

\* v1: num_chunks = int(np.ceil(duration / chunk_duration)), with
\* duration = len(y) / sr; the quotients are exact enough for the ceiling to
\* be that of the integer ratio
v1_num_chunks(total, cs) ==
  IF total % cs = 0 THEN total \div cs ELSE (total \div cs) + 1

\* start_idx = i * chunk_size; end_idx = min(start_idx + chunk_size, total)
segment(i, cs, total) ==
  [start |-> i * cs, end |-> Min(i * cs + cs, total)]

\* v1: start_sample = int(i * chunk_duration * sr),
\*     end_sample = int(min((i + 1) * chunk_duration * sr, len(y)))
v1_segment(i, cs, total) ==
  [start |-> i * cs, end |-> Min((i + 1) * cs, total)]

ChunkSize(ver, rate) == IF ver = "v1" THEN v1_chunk_size(rate) ELSE chunk_size(rate)
NumChunks(ver, total, cs) ==
  IF ver = "v1" THEN v1_num_chunks(total, cs) ELSE num_chunks(total, cs)
Segment(ver, i, cs, total) ==
  IF ver = "v1" THEN v1_segment(i, cs, total) ELSE segment(i, cs, total)
IsLarge(ver, bytes) == IF ver = "v1" THEN v1_is_large(bytes) ELSE is_large(bytes)

\* v1: a segment shorter than int(0.5 * sr) samples is padded with zeros
v1_pad(len, rate) == IF len < rate \div 2 THEN rate \div 2 ELSE len

\* all_transcriptions.append(response.text): a reply without text raises
append_reply(list, reply) ==
  IF reply.kind = "text" THEN [ok |-> TRUE, list |-> Append(list, reply.text)]
  ELSE [ok |-> FALSE, list |-> list]

\* v1: appended only if the reply has a non-empty text, else passed over
v1_append_reply(list, reply) ==
  IF reply.kind = "text" /\ reply.text # <<>>
    THEN [ok |-> TRUE, list |-> Append(list, reply.text)]
    ELSE [ok |-> TRUE, list |-> list]

AppendReply(ver, list, reply) ==
  IF ver = "v1" THEN v1_append_reply(list, reply) ELSE append_reply(list, reply)

\* History events: progress, request, error (a signal), finished (a signal
\* with its text), and the reply the service gave to a request
Ev(e, seg, text) ==
  [ev |-> e, seg |-> seg, text |-> text, kind |-> "-", of |-> 0]
\* error.emit(msg): the message is named by what raised it
ErrorEv(msg) ==
  [ev |-> "error", seg |-> 0, text |-> <<>>, kind |-> msg, of |-> 0]

\* a progress message that counts the segments from 0
progress_message_from_zero(i, n) ==
  [ev |-> "progress", seg |-> i, text |-> <<>>, kind |-> "-", of |-> n]

\* progress.emit(f"Processing chunk {i+1} of {num_chunks}...") and v1's
\* f"Transcribing chunk {i+1}/{num_chunks}..."
progress_message(i, n) ==
  [ev |-> "progress", seg |-> i + 1, text |-> <<>>, kind |-> "-", of |-> n]
ReplyEv(seg, reply) ==
  [ev |-> "reply", seg |-> seg, text |-> reply.text, kind |-> reply.kind,
   of |-> 0]

\* TranscriptionThread.__init__ (simple: with its tempfile.mkdtemp())
TranscriptionThread(ver, file, exists, key) ==
  [pc |-> "new", file |-> file, exists |-> exists, key |-> key,
   total_samples |-> 0, chunk_size |-> 0, num_chunks |-> 0, i |-> 0,
   all_transcriptions |-> <<>>, outstanding |-> 0,
   tmp |-> {}, dir |-> (ver = "simple")]

\* _cleanup_temp_files: shutil.rmtree(self.temp_dir)
cleanup_temp_files(t) == [t EXCEPT !.tmp = {}, !.dir = FALSE]

\* A loop that goes on to its next pass while the request of the previous
\* one is still in flight
LoopReadyEarly(t) == t.pc \in {"loop", "wait_seg"} /\ t.i < t.num_chunks

\* A loop that takes up a pass again after its request failed
LoopReadyRetry(t) == t.pc \in {"loop", "done"} /\ t.i < t.num_chunks

\* the for loop sends the next request only when the call for the previous
\* one has returned
LoopReady(t) == t.pc = "loop" /\ t.i < t.num_chunks

\* The end of a transcribe call that reached cleanup: simple removes its
\* temp directory, v1 has none and removes nothing
Done(ver, t) ==
  IF ver = "v1" THEN [t EXCEPT !.pc = "done"]
  ELSE [cleanup_temp_files(t) EXCEPT !.pc = "done"]

SegFile(i) == [kind |-> "wav", idx |-> i]
Mp3File(i) == [kind |-> "mp3", idx |-> i]

\* file test before key test
first_check_file_first(key, exists) ==
  IF ~exists THEN "file_not_found"
  ELSE IF ~key THEN "key_not_set" ELSE "ok"

\* transcribe: the key test, then the file test
first_check(key, exists) ==
  IF ~key THEN "key_not_set"
  ELSE IF ~exists THEN "file_not_found" ELSE "ok"

\* _compress_audio leaves a file in the temp directory: the output of the
\* encoder, or the empty file of its mkstemp
mp3_left(ver, bytes, enc) ==
  encoder_outcome(ver, bytes, enc) \in
    {e \in EncoderOutcomes : e.output # "missing"}

\* after the reply the compressed file is removed only if it was the one sent
sent_mp3(i) ==
  IF plan[Len(plan)].kind = "compressed" THEN {Mp3File(i)} ELSE {}

\* transcribe, up to its first request or, when it sends none, to its end.
\* enc: what ffmpeg does; lib_ok: v1's import of librosa works
Transcribe ==
  /\ tr.pc = "new"
  /\ \E enc \in EncoderOutcomes, lib_ok \in BOOLEAN :
       LET f     == tr.file
           bytes == WavBytes(f.frames, DefaultChannels)
       IN
       IF first_check(tr.key, tr.exists) # "ok" THEN
         \* the key or the file is missing: error and return
         /\ tr' = [tr EXCEPT !.pc = "done"]
         /\ tr_log' = Append(tr_log, ErrorEv(first_check(tr.key, tr.exists)))
         /\ plan' = plan
       ELSE IF version = "v1" /\ 2 * f.frames < f.rate THEN
         \* v1: duration < 0.5: error and return
         /\ tr' = [tr EXCEPT !.pc = "done"]
         /\ tr_log' = Append(tr_log, ErrorEv("too_short"))
         /\ plan' = plan
       ELSE IF IsLarge(version, bytes) THEN
         IF version = "v1" /\ ~lib_ok THEN
           \* v1: ImportError: error, return "", then finished.emit("")
           /\ tr' = Done(version, tr)
           /\ tr_log' = tr_log \o <<ErrorEv("large_file"), Ev("finished", 0, <<>>)>>
           /\ plan' = plan
         ELSE
           LET cs == ChunkSize(version, f.rate)
           IN  /\ tr' = [tr EXCEPT !.pc = "loop", !.total_samples = f.frames,
                                   !.chunk_size = cs, !.i = 0,
                                   !.num_chunks = NumChunks(version, f.frames, cs)]
               /\ tr_log' = tr_log
               /\ plan' = plan
       ELSE
         LET kind == IF version = "v1" THEN "original"
                     ELSE compress_audio(bytes, enc)
         IN  /\ tr' = [tr EXCEPT !.pc = "wait_direct", !.outstanding = @ + 1,
                                 !.tmp = IF mp3_left(version, bytes, enc)
                                           THEN @ \cup {Mp3File(0)} ELSE @]
             /\ tr_log' = Append(tr_log, Ev("request", 1, <<>>))
             /\ plan' = Append(plan, [start |-> 0, end |-> f.frames,
                                      frames |-> f.frames, bytes |-> bytes,
                                      kind |-> kind,
                                      enc |-> encoder_run(version, bytes, enc),
                                      ffmpeg |-> encoder_outcome(version, bytes, enc),
                                      bitrate |-> encoder_bitrate(version, bytes,
                                                                  f.frames, f.rate)])
  /\ UNCHANGED <<version, rec_vars>>

\* The reply to the request of the direct path, and the rest of transcribe
DirectReply ==
  /\ tr.pc = "wait_direct"
  /\ \E reply \in Replies :
       LET t1 == [tr EXCEPT !.outstanding = @ - 1]
           lg == Append(tr_log, ReplyEv(1, reply))
       IN
       IF reply.kind = "text" /\ ~(version = "v1" /\ reply.text = <<>>) THEN
         /\ tr' = Done(version, [t1 EXCEPT !.all_transcriptions = <<reply.text>>,
                                           !.tmp = @ \ sent_mp3(0)])
         /\ tr_log' = Append(lg, Ev("finished", 0, reply.text))
       ELSE IF version = "v1" /\ reply.kind # "fail" THEN
         \* v1: "Received empty transcript": error and return
         /\ tr' = [t1 EXCEPT !.pc = "done"]
         /\ tr_log' = Append(lg, ErrorEv("empty_transcript"))
       ELSE
         \* the exception is caught by transcribe: error, then cleanup
         /\ tr' = Done(version, t1)
         /\ tr_log' = Append(lg, ErrorEv("during_transcription"))
  /\ UNCHANGED <<version, rec_vars, plan>>

\* One pass of the loop of _transcribe_large_file up to its request:
\* progress, the cut, the segment file, compression, the request
SegmentRequest ==
  /\ LoopReady(tr)
  /\ \E enc \in EncoderOutcomes :
       LET seg   == Segment(version, tr.i, tr.chunk_size, tr.total_samples)
           len   == seg.end - seg.start
           wr    == IF version = "v1" THEN v1_pad(len, tr.file.rate) ELSE len
           bytes == WavBytes(wr, DefaultChannels)
           kind  == IF version = "v1" THEN "original"
                    ELSE compress_audio(bytes, enc)
       IN  /\ tr' = [tr EXCEPT !.pc = "wait_seg", !.outstanding = @ + 1,
                               !.tmp = @ \cup {SegFile(tr.i)} \cup
                                       (IF mp3_left(version, bytes, enc)
                                          THEN {Mp3File(tr.i)} ELSE {})]
           /\ plan' = Append(plan, [start |-> seg.start, end |-> seg.end,
                                    frames |-> wr, bytes |-> bytes,
                                    kind |-> kind,
                                    enc |-> encoder_run(version, bytes, enc),
                                    ffmpeg |-> encoder_outcome(version, bytes, enc),
                                    bitrate |-> encoder_bitrate(version, bytes,
                                                                wr, tr.file.rate)])
           /\ tr_log' = tr_log \o <<progress_message(tr.i, tr.num_chunks),
                                    Ev("request", tr.i + 1, <<>>)>>
  /\ UNCHANGED <<version, rec_vars>>

\* The reply to a segment's request and the rest of the pass; after the last
\* pass, the join, the return to transcribe, finished and cleanup
SegmentReply ==
  /\ tr.pc = "wait_seg"
  /\ \E reply \in Replies :
       LET a  == AppendReply(version, tr.all_transcriptions, reply)
           t1 == [tr EXCEPT !.outstanding = @ - 1]
           lg == Append(tr_log, ReplyEv(tr.i + 1, reply))
       IN
       IF reply.kind = "fail" \/ ~a.ok THEN
         \* the exception is caught in _transcribe_large_file: error, return "";
         \* transcribe then emits finished("") and cleans up
         /\ tr' = Done(version, t1)
         /\ tr_log' = lg \o <<ErrorEv("large_file"), Ev("finished", 0, <<>>)>>
       ELSE
         LET t2 == [t1 EXCEPT !.all_transcriptions = a.list, !.i = @ + 1,
                              !.tmp = @ \ ({SegFile(tr.i)} \cup sent_mp3(tr.i))]
         IN  IF t2.i = t2.num_chunks THEN
               /\ tr' = Done(version, t2)
               /\ tr_log' = Append(lg, Ev("finished", 0, SpaceJoin(a.list)))
             ELSE
               /\ tr' = [t2 EXCEPT !.pc = "loop"]
               /\ tr_log' = lg
  /\ UNCHANGED <<version, rec_vars, plan>>

(* --------------------------- specification ----------------------------- *)
InitUi ==
  [recording_thread |-> FALSE, is_recording |-> FALSE, is_paused |-> FALSE,
   timer |-> FALSE, temp_audio_file |-> NoPath, record_button |-> TRUE,
   pause_button |-> FALSE, stop_button |-> FALSE,
   stop_and_transcribe_button |-> FALSE, clear_recording_button |-> FALSE,
   transcribe_button |-> FALSE, cleanup_checkbox |-> TRUE,
   auto_transcribe_checkbox |-> FALSE, api_key |-> TRUE,
   timers |-> <<>>, threads |-> {}, threads_made |-> 0,
   handed |-> {}, closed |-> FALSE]

RecInitFiles ==
  /\ rt_made = 0
  /\ orphans = 0
  /\ disk = NoDisk
  /\ stale = {}
  /\ dirs = {}
  /\ tmp_made = 0
  /\ emitted = <<>>
  /\ shown = <<>>
  /\ captured = <<>>
  /\ batches = 0
  /\ io_fault = FALSE
  /\ last_op = "init"

RecInitThread ==
  /\ rt = RecordingThread(CHOOSE d \in Devices : d.default # 0, 0)
  /\ RecInitFiles

\* Auto-Transcribe is unchecked and GPT processing checked at construction
RecInit ==
  /\ RecInitThread
  /\ ui = InitUi

\* no TranscriptionThread yet
TrInit ==
  /\ tr = [TranscriptionThread("v1", CHOOSE f \in AudioFiles : f.frames = 8000,
                               FALSE, FALSE) EXCEPT !.pc = "none"]
  /\ tr_log = <<>>
  /\ plan = <<>>

vars == <<version, rec_vars, tr_vars>>

\* The recording pipeline: the window's recording handlers and the callback
Init ==
  /\ version \in Versions
  /\ RecInit
  /\ TrInit

Next ==
  \/ StartRecording
  \/ NoDeviceSelected
  \/ PauseRecording
  \/ StopRecording
  \/ AudioCallback
  \/ V1StartRecording
  \/ V1PauseRecording
  \/ V1StopRecording

Spec == Init /\ [][Next]_vars

\* The number of segments transcribe will cut the file into (1 on the direct path)
PlannedSegments(ver, f) ==
  IF IsLarge(ver, WavBytes(f.frames, DefaultChannels))
    THEN NumChunks(ver, f.frames, ChunkSize(ver, f.rate))
    ELSE 1

\* The transcription pipeline: one TranscriptionThread on one final waveform
InitT ==
  /\ version \in Versions
  /\ RecInit
  /\ \E f \in AudioFiles, exists \in BOOLEAN, key \in BOOLEAN :
       /\ PlannedSegments(version, f) <= MaxSegments
       /\ tr = TranscriptionThread(version, f, exists, key)
  /\ tr_log = <<>>
  /\ plan = <<>>

NextT ==
  \/ Transcribe
  \/ DirectReply
  \/ SegmentRequest
  \/ SegmentReply

SpecT == InitT /\ [][NextT]_vars

\* The same pipeline when every call the thread makes returns: run() goes on
\* to its next statement, and each request and each encoder call comes back
\* with a reply or a failure
SpecTFair == SpecT /\ WF_vars(NextT)

\* The window of whisper_notepad_simple.py: recording, transcription and
\* cleanup threads, timers and close, with the two checkboxes and the key
\* as the user left them
InitApp ==
  /\ version = "simple"
  /\ RecInitThread
  /\ \E cleanup \in BOOLEAN, auto \in BOOLEAN, key \in BOOLEAN :
       ui = [InitUi EXCEPT !.cleanup_checkbox = cleanup,
                           !.auto_transcribe_checkbox = auto,
                           !.api_key = key]
  /\ TrInit

NextApp ==
  \/ StartRecording
  \/ NoDeviceSelected
  \/ PauseRecording
  \/ StopRecording
  \/ StopAndTranscribe
  \/ WindowAudioCallback
  \/ ClearRecording
  \/ TranscribeAudio
  \/ TimerFires
  \/ TranscriptionStarts
  \/ TranscriptionEnds
  \/ CleanupEnds
  \/ CloseEvent

SpecApp == InitApp /\ [][NextApp]_vars

\* Devices for the negotiation alone: a default rate reported or not, any
\* set of the common rates accepted, the query working or raising
ProbeDevices ==
  [default : {0, 44100}, accepts : SUBSET Range(common_rates),
   query_ok : BOOLEAN]

\* RecordingThread.start_recording, called on a new RecordingThread
Negotiate ==
  /\ last_op = "init"
  /\ \E outcome \in StartOutcomes :
       LET r == start_recording(rt, outcome)
       IN  /\ rt' = r.t
           /\ emitted' = r.sig
           /\ shown' = Messages(r.sig)
  /\ last_op' = "start"
  /\ UNCHANGED <<tr_vars, version, rt_made, orphans, disk, stale, dirs,
                 tmp_made, captured, batches, io_fault, ui>>

\* The sample-rate negotiation: one start_recording call on any device
InitR ==
  /\ version \in Versions
  /\ \E dev \in ProbeDevices : rt = RecordingThread(dev, 0)
  /\ RecInitFiles
  /\ ui = InitUi
  /\ TrInit

NextR == Negotiate

SpecR == InitR /\ [][NextR]_vars

(* ------------------------- recording: claims --------------------------- *)
\* the runs of a waveform without a trailing run of silence
WithoutSilence(runs) ==
  IF runs # <<>> /\ runs[Len(runs)].id = 0
    THEN SubSeq(runs, 1, Len(runs) - 1) ELSE runs

\* stop_recording has just run on a session whose stream had been opened
StopHasRun == last_op = "stop" /\ rt.stream = "closed"

\* what stop_recording read back from chunk_files: on finished the final
\* waveform holds it (before padding), otherwise the chunk files still do
ChunksOnDisk == \A i \in 1..Len(rt.chunk_files) : rt.chunk_files[i] \in DOMAIN disk
ReadBack ==
  IF HasFinished(emitted) THEN WithoutSilence(disk[rt.temp_file_path].runs)
  ELSE ReadChunks(rt.chunk_files, disk)

C2_FinalNotTruncated ==
  (last_op = "stop" /\ HasFinished(emitted)) =>
    LET final == disk[rt.temp_file_path].runs
        n     == NumFrames(captured)
    IN  /\ NumFrames(final) >= n
        /\ 2 * NumFrames(final) >= rt.sample_rate
        /\ \/ final = captured
           \/ final = captured \o <<[id |-> 0, n |-> NumFrames(final) - n]>>

\* C3: stopping a recording whose captured audio is non-empty but shorter
\* than 0.5 s succeeds: finished is emitted, no error is emitted, and the
\* final waveform is the captured samples followed by zeros, 0.5 s in all.
C3_ShortRecordingPadded ==
  (StopHasRun /\ ~io_fault /\ ChunksOnDisk /\ captured # <<>>
     /\ 2 * NumFrames(captured) < rt.sample_rate) =>
    /\ emitted = <<Finished>>
    /\ rt.temp_file_path \in DOMAIN disk
    /\ LET final == disk[rt.temp_file_path].runs
       IN  /\ WithoutSilence(final) = captured
           /\ NumFrames(final) = MinDurationSamples(rt.sample_rate)

\* The state of a session as its flags and its stream give it
SessionState(t) ==
  CASE t.stream \in {"none", "created"} /\ ~t.recording /\ ~t.paused -> "Idle"
    [] t.stream \in {"none", "created"} /\ t.recording /\ ~t.paused -> "Failed"
    [] t.stream = "active" /\ t.recording /\ ~t.paused -> "Recording"
    [] t.stream = "active" /\ t.recording /\ t.paused -> "Paused"
    [] t.stream = "closed" /\ ~t.recording /\ ~t.paused -> "Stopped"
    [] OTHER -> "Invalid"

SessionEdges ==
  { <<"Idle", "Recording">>, <<"Idle", "Failed">>,
    <<"Recording", "Paused">>, <<"Paused", "Recording">>,
    <<"Recording", "Stopped">>, <<"Paused", "Stopped">>,
    <<"Failed", "Stopped">> }

\* C9: a session only moves along Idle -> Recording -> (Paused <-> Recording)
\* -> Stopped: pausing and resuming change state only from Recording or
\* Paused, a session that never started or has stopped is never left with
\* paused set, and a Stopped session never records or pauses again.
C9_SessionStateMachine ==
  [][ IF rt_made' = rt_made
        THEN \/ SessionState(rt') = SessionState(rt)
             \/ <<SessionState(rt), SessionState(rt')>> \in SessionEdges
        ELSE SessionState(rt') \in {"Recording", "Failed"} ]_vars

\* C10: if opening or starting the input stream fails, the session is not
\* left with its recording flag set and the window does not show it as
\* recording (timer running, Stop enabled).
C10_StartFailureNotRecording ==
  (last_op = "start" /\ rt.stream # "active") =>
    (~rt.recording /\ ~ui.timer /\ ~ui.stop_button)

(* ----------------------- transcription: claims ------------------------- *)
\* positions of the events of one kind in the history
Events(e) == {p \in 1..Len(tr_log) : tr_log[p].ev = e}

\* transcribe took the split path (_transcribe_large_file set its chunk size)
SplitPath == tr.chunk_size > 0

\* the segment length the two modules document: 5 minutes, and 60 s in v1
SegmentSeconds == IF version = "v1" THEN 60 ELSE 5 * 60

\* C4: in _transcribe_large_file the segments cut so far start at sample 0,
\* each starts where the previous one ended (no gap, no overlap, in order),
\* every segment but the last has exactly segment_duration * sample_rate
\* samples, the last has more than 0 and at most that many, and once all
\* num_chunks passes have run the last segment ends at total_samples.
C4_SegmentsCoverWaveform ==
  SplitPath =>
    LET full == SegmentSeconds * tr.file.rate
    IN  /\ Len(plan) <= tr.num_chunks
        /\ \A j \in 1..Len(plan) :
             /\ plan[j].start = (IF j = 1 THEN 0 ELSE plan[j - 1].end)
             /\ plan[j].end - plan[j].start > 0
             /\ plan[j].end - plan[j].start <= full
             /\ j < tr.num_chunks => plan[j].end - plan[j].start = full
        /\ (tr.pc = "done" /\ Events("error") = {}) =>
             /\ Len(plan) = tr.num_chunks
             /\ plan[Len(plan)].end = tr.file.frames

\* C4 witness: a split transcription that ran all its passes, of four
\* segments, the last one shorter than a full segment
C4_Witness ==
  /\ SplitPath /\ tr.pc = "done" /\ Events("error") = {}
  /\ Len(plan) = 4
  /\ plan[4].end - plan[4].start < SegmentSeconds * tr.file.rate

RECURSIVE ReplyTexts(_)
\* the texts of the replies received, in the order they were received
ReplyTexts(log) ==
  IF log = <<>> THEN <<>>
  ELSE (IF Head(log).ev = "reply" THEN <<Head(log).text>> ELSE <<>>)
       \o ReplyTexts(Tail(log))

\* the call ended with finished and without an error
Succeeded == tr.pc = "done" /\ Events("finished") # {} /\ Events("error") = {}

\* C5: when a transcription of n >= 1 segments succeeds, the text emitted
\* by finished is the replies of segments 1..n joined with single spaces in
\* segment order.
C5_TranscriptIsJoinOfReplies ==
  Succeeded =>
    \A p \in Events("finished") : tr_log[p].text = SpaceJoin(ReplyTexts(tr_log))

\* C6: within one transcribe call at most one request is outstanding, the
\* k-th request issued is the one for segment k, and between two requests
\* the reply to the earlier one has been received.
C6_RequestsSequential ==
  /\ tr.outstanding <= 1
  /\ \A p \in Events("request") :
       /\ tr_log[p].seg = Cardinality({q \in Events("request") : q <= p})
       /\ \A q \in Events("request") :
            p < q => \E r \in Events("reply") :
                       p < r /\ r < q /\ tr_log[r].seg = tr_log[p].seg

\* C6 witness: a split transcription that has issued three requests
C6_Witness ==
  /\ SplitPath /\ Cardinality(Events("request")) = 3
  /\ Cardinality(Events("reply")) = 2 /\ tr.outstanding = 1

\* C7: if the request for a segment of a multi-segment transcription fails,
\* the call ends in failure: error is emitted, no later segment is
\* requested and finished is never emitted.
C7_SegmentFailureAborts ==
  \A r \in Events("reply") :
    (SplitPath /\ tr_log[r].kind = "fail") =>
      /\ \E e \in Events("error") : e > r
      /\ \A q \in Events("request") : q < r
      /\ Events("finished") = {}

\* C8: an empty or malformed reply for any segment of a split transcription
\* makes the transcription fail with an error; no transcript is emitted
\* through finished after it.
C8_EmptyReplyIsError ==
  \A r \in Events("reply") :
    (SplitPath /\ tr.pc = "done"
       /\ (tr_log[r].kind = "malformed"
           \/ (tr_log[r].kind = "text" /\ tr_log[r].text = <<>>))) =>
      /\ Events("error") # {}
      /\ Events("finished") = {}

(* --------------------- error handling: claims -------------------------- *)
\* C11: a stop_recording call on a session that is already stopped (its
\* stream was closed by an earlier stop_recording) ends with an error
\* signal and without finished.
C11_StopOnStoppedIsError ==
  [][ (last_op' = "stop" /\ rt.stream = "closed") =>
        /\ emitted' # <<>>
        /\ \A i \in 1..Len(emitted') : emitted'[i].sig = "error" ]_vars

\* C11, the transcribe half: with the key set and the file missing the call
\* ends with one error, no request and no finished.
C11_TranscribeMissingFile ==
  (tr.pc = "done" /\ tr.key /\ ~tr.exists) =>
    /\ Cardinality(Events("error")) = 1
    /\ Events("finished") = {} /\ Events("request") = {}

\* C12: every call of stop_recording emits exactly one signal, finished or
\* error; it never returns having emitted neither.
C12_StopEmitsOneSignal ==
  [][ last_op' = "stop" => Len(emitted') = 1 ]_vars

\* C13: when stop_recording runs on a started session to which no batch
\* was ever appended, it emits the error "No audio recorded" and nothing
\* else, a message other than that of a device error, and sets no final
\* waveform path.
C13_NoAudioRecorded ==
  (StopHasRun /\ captured = <<>>) =>
    /\ emitted = <<Err("No audio recorded")>>
    /\ emitted # <<Err("Error starting recording")>>
    /\ rt.temp_file_path = NoPath

\* C13 witness: a session stopped after callbacks that all came while it
\* was paused
C13_Witness ==
  StopHasRun /\ captured = <<>> /\ batches >= 2 /\ rt.chunk_files = <<>>

(* ----------------------- sessions: claims ------------------------------ *)
\* C14: at most one recording session holds an open device stream: no
\* RecordingThread is created and started while the one the window referred
\* to before still has its stream open (Recording or Paused).
C14_OneOpenStream == orphans = 0

\* C15: a pause or a resume changes only the paused flag of the session:
\* current_chunk, chunk_files, the stream and the files on disk stay as they
\* were (no flush); a batch delivered while paused changes neither the
\* session nor the disk and is not captured, so after the resume the
\* accumulator goes on from what it held before the pause.
C15_PauseOnlyGates ==
  [][ /\ last_op' \in {"pause", "resume"} =>
           /\ rt' = [rt EXCEPT !.paused = (last_op' = "pause")]
           /\ disk' = disk
           /\ captured' = captured
      /\ (last_op' = "callback" /\ rt.paused) =>
           /\ rt' = rt
           /\ disk' = disk
           /\ captured' = captured ]_vars

\* C15 witness: a session resumed with a non-empty accumulator after a
\* batch was delivered, and left out, while it was paused
C15_Witness ==
  /\ last_op = "resume" /\ rt.stream = "active" /\ ~rt.paused
  /\ rt.current_chunk # <<>> /\ batches > Len(captured)

(* ------------------------- chunks: claims ------------------------------ *)
\* C16: the operation in which a write of this session first fails emits an
\* error signal, and a stop_recording that emits finished has written a
\* final waveform that holds every captured frame.
C16_WriteFailureAborts ==
  [][ /\ (io_fault' /\ ~io_fault) =>
           \E i \in 1..Len(emitted') : emitted'[i].sig = "error"
      /\ (last_op' = "stop" /\ HasFinished(emitted')) =>
           WithoutSilence(disk'[rt'.temp_file_path].runs) = captured' ]_vars

\* the chunk files of the session that are on disk
ChunkFilesOnDisk == {x \in DOMAIN disk : x.kind = "chunk"}

\* C17: every chunk file flushed by the callback during a recording holds
\* at most 60 seconds of audio, 60 * sample_rate samples.
C17_ChunkAtMostSixtySeconds ==
  last_op = "callback" =>
    \A x \in ChunkFilesOnDisk :
      NumFrames(disk[x].runs) <= 60 * disk[x].rate

\* C18: the i-th entry of chunk_files (from 0) is chunk_<i>.wav of the
\* session's directory; while the files exist, read in list order they are
\* the first spans of the capture, each file one non-empty span; and no
\* step of the session writes to a file already listed in chunk_files.
C18_ChunkIndexIsIdentity ==
  [][ /\ \A i \in 1..Len(rt'.chunk_files) :
           rt'.chunk_files[i] = [kind |-> "chunk", dir |-> rt'.temp_dir, idx |-> i - 1]
      /\ (\A i \in 1..Len(rt'.chunk_files) : rt'.chunk_files[i] \in DOMAIN disk') =>
           LET read == ReadChunks(rt'.chunk_files, disk')
           IN  /\ Len(read) <= Len(captured')
               /\ read = SubSeq(captured', 1, Len(read))
               /\ \A i \in 1..Len(rt'.chunk_files) :
                    disk'[rt'.chunk_files[i]].runs # <<>>
      /\ rt_made' = rt_made =>
           \A i \in 1..Len(rt.chunk_files) :
             LET x == rt.chunk_files[i]
             IN  (x \in DOMAIN disk /\ x \in DOMAIN disk') => disk'[x] = disk[x] ]_vars

\* C18 witness: a recording with two flushed chunks on disk and a third
\* batch in the accumulator
C18_Witness ==
  /\ last_op = "callback" /\ Len(rt.chunk_files) = 2 /\ ChunksOnDisk
  /\ rt.current_chunk # <<>>

(* ------------------- transcription paths: claims ----------------------- *)
\* the size in bytes of the waveform handed to the TranscriptionThread
FileBytes == WavBytes(tr.file.frames, DefaultChannels)

\* a call of whisper_notepad_simple.py that got past its key and file tests
\* and has ended or waits for a reply
PathTaken ==
  /\ version = "simple" /\ tr.key /\ tr.exists
  /\ tr.pc \in {"wait_direct", "wait_seg", "done"}

Whole(p) == p.start = 0 /\ p.end = tr.file.frames

\* C19: up to 23 MB transcribe issues one request with the whole file, the
\* original up to 15 MB, above it the compressed file (the original when
\* the encoder left no usable output); over 23 MB it takes the split path
\* and sends no file that holds the whole waveform.
C19_OneRequestUnderCeiling ==
  PathTaken =>
    IF FileBytes <= 23 * MB
      THEN /\ ~SplitPath
           /\ Len(plan) = 1 /\ Cardinality(Events("request")) = 1
           /\ Whole(plan[1])
           /\ FileBytes <= 15 * MB =>
                plan[1].kind = "original" /\ plan[1].enc = "not_run"
           /\ FileBytes > 15 * MB =>
                /\ plan[1].enc \in {"ok", "failed"}
                /\ plan[1].kind = (IF plan[1].enc = "ok" THEN "compressed"
                                   ELSE "original")
      ELSE /\ SplitPath
           /\ \A j \in 1..Len(plan) : ~Whole(plan[j])

\* C20: in the split path every segment file sent is at least 0.5 s long;
\* a segment cut shorter than that is padded to exactly 0.5 s, and a
\* longer one is sent as cut.
C20_SegmentsAtLeastHalfSecond ==
  SplitPath =>
    \A j \in 1..Len(plan) :
      LET cut   == plan[j].end - plan[j].start
          floor == tr.file.rate \div 2
      IN  /\ plan[j].frames >= floor
          /\ plan[j].frames = (IF cut < floor THEN floor ELSE cut)

(* ----------------------- temporary files: claims ----------------------- *)
\* C21: when a transcribe call has ended, by finished or by an error, no
\* segment file and no compressed file made for it is left, and the
\* temporary directory of the TranscriptionThread is gone.
C21_TranscriptionLeavesNoFiles ==
  tr.pc = "done" => (tr.tmp = {} /\ ~tr.dir)

\* the final-waveform files (mkstemp of stop_recording) of this session
FinalFilesOnDisk == {x \in DOMAIN disk : x.kind = "final"}

\* the session the window refers to has ended: its start failed, or
\* stop_recording has run on it
SessionEnded ==
  \/ last_op = "start" /\ rt.stream # "active"
  \/ StopHasRun

\* C22: when a recording session has ended, its chunk directory and its
\* chunk files are gone, and unless it ended with finished no final-waveform
\* file made by stop_recording is on disk.
C22_SessionLeavesNoFiles ==
  SessionEnded =>
    /\ rt.temp_dir \notin dirs
    /\ ChunkFilesOnDisk = {}
    /\ ~HasFinished(emitted) => FinalFilesOnDisk = {}

\* C23: every final waveform file a recording handed to the window is deleted
\* at the latest when the application has closed, whether or not GPT cleanup
\* is enabled, after Clear Recording, and when a later recording replaced
\* temp_audio_file
C23_FinalWaveformDeleted ==
  ui.closed => \A f \in ui.handed : ~Exists(f)

(* --------------------------- compression: claims ----------------------- *)
\* the calls of _compress_audio that went on to the encoder
Encoded == {j \in 1..Len(plan) : plan[j].enc # "not_run"}

\* C24: a _compress_audio call never stops the transcription: its request is
\* issued whatever the encoder did; the original file is sent when the
\* encoder was not found, exited with failure, or left no or an empty
\* output, and the compressed file only when the invocation succeeded
C24_CompressionNeverFatal ==
  /\ Cardinality(Events("request")) = Len(plan)
  /\ \A j \in Encoded :
       LET p == plan[j]
           failed == \/ ~p.ffmpeg.found
                     \/ ~p.ffmpeg.exit_ok
                     \/ p.ffmpeg.output # "data"
       IN  /\ failed => p.kind = "original"
           /\ p.kind = "compressed" => p.ffmpeg.found /\ p.ffmpeg.exit_ok

RECURSIVE FracLeq(_, _, _, _)
\* a / b <= c / d for positive integers, compared by whole parts and then by
\* the inverted remainders, without forming a product
FracLeq(a, b, c, d) ==
  LET qa == a \div b
      qc == c \div d
      ra == a % b
      rc == c % d
  IN  IF qa # qc THEN qa < qc
      ELSE IF ra = 0 THEN TRUE
      ELSE IF rc = 0 THEN FALSE
      ELSE FracLeq(d, rc, b, ra)

\* the waveform of Scenario D: 20 MB (20,971,244 bytes), 600 s
ScenarioD(p) == p.frames = 10485600 /\ tr.file.rate = 17476

\* C25: the bitrate handed to the encoder for a file over the 15 MB target is
\* the target in kilobits divided by the duration in seconds, cut to a whole
\* number and clamped into 32..128 kbps; for the 20 MB file of 600 s it is in
\* that range; when the encoder is not found the original file is sent and
\* no error signal has been emitted
C25_BitrateClamped ==
  \A j \in Encoded :
    LET p == plan[j]
        b == p.bitrate
        rate == tr.file.rate
    IN  /\ 32 <= b /\ b <= 128
        \* b <= TargetKbit / duration unless the clamp raised it to 32
        /\ b > 32 => FracLeq(p.frames, rate, TargetKbit, b)
        \* TargetKbit / duration < b + 1 unless the clamp cut it to 128
        /\ b < 128 => ~FracLeq(p.frames, rate, TargetKbit, b + 1)
        /\ ~p.ffmpeg.found =>
             /\ p.kind = "original"
             /\ (j = Len(plan) /\ tr.pc \in {"wait_direct", "wait_seg"}) =>
                  Events("error") = {}

\* Scenario D with ffmpeg missing: the request carries the original file
C25_Witness ==
  /\ tr.pc = "wait_direct"
  /\ \E j \in Encoded :
       /\ ScenarioD(plan[j])
       /\ ~plan[j].ffmpeg.found
       /\ plan[j].kind = "original"

\* a file whose quotient lies inside the range, and ones cut from either side
C25_RangeCovered ==
  \E j \in Encoded : plan[j].bitrate \notin {32, 128}

(* --------------------------- missing key: claims ----------------------- *)
\* C26: with no API key set transcribe emits the key-not-set error and
\* nothing else: no request, no compression, no split, no finished
C26_NoKeyFailsFast ==
  ~tr.key =>
    /\ tr.pc \in {"new", "done"}
    /\ plan = <<>> /\ tr.outstanding = 0 /\ ~SplitPath
    /\ tr.pc = "done" => tr_log = <<ErrorEv("key_not_set")>>

\* the call has ended without a key, the file missing as well
C26_Witness ==
  /\ tr.pc = "done" /\ ~tr.key /\ ~tr.exists
  /\ tr_log = <<ErrorEv("key_not_set")>>

\* C26, the window's half: without a key transcribe_audio starts no thread
C26_WindowStartsNoThread ==
  ~ui.api_key => (ui.threads = {} /\ ui.threads_made = 0)

(* ------------------------- sample rate: claims ------------------------- *)
\* the rate is the first of the common rates, in their order, the device accepts
FirstInOrder(r, accepts) ==
  \E i \in 1..Len(common_rates) :
    /\ common_rates[i] = r
    /\ r \in accepts
    /\ \A j \in 1..(i - 1) : common_rates[j] \notin accepts

NoneAccepted(dev) == dev.accepts \cap Range(common_rates) = {}

\* the first two cases of the negotiation of a device that can be queried
DefaultOrProbed(dev, r) ==
  /\ dev.default # 0 => r = dev.default
  /\ (dev.default = 0 /\ ~NoneAccepted(dev)) => FirstInOrder(r, dev.accepts)

\* C27 as stated: the reported default rate when present, otherwise the first
\* of 48000, 44100, 16000, 8000 the device accepts, and 16000 when none of
\* them is accepted
C27_AsStated ==
  (last_op = "start" /\ rt.device.query_ok) =>
    /\ DefaultOrProbed(rt.device, rt.sample_rate)
    /\ (rt.device.default = 0 /\ NoneAccepted(rt.device)) =>
         rt.sample_rate = 16000

\* C27, amended: the reported default rate when present, otherwise the first
\* of 48000, 44100, 16000, 8000 the device accepts, 8000 when none of them is
\* accepted, and 16000 only when the query of the device raises
C27_Negotiated ==
  last_op = "start" =>
    IF rt.device.query_ok
      THEN /\ DefaultOrProbed(rt.device, rt.sample_rate)
           /\ (rt.device.default = 0 /\ NoneAccepted(rt.device)) =>
                rt.sample_rate = 8000
      ELSE rt.sample_rate = 16000

\* no default reported, 48000 rejected, 44100 and 8000 accepted: 44100
C27_Witness ==
  /\ last_op = "start"
  /\ rt.device.query_ok /\ rt.device.default = 0
  /\ rt.device.accepts = {44100, 8000}
  /\ rt.sample_rate = 44100

\* the files of the running session that hold audio
WrittenFiles == {x \in DOMAIN disk : disk[x] # EmptyFile}

\* C28: the rate negotiated by start_recording is the one the stream was
\* opened with and stays the session's rate to the end of stop_recording;
\* every chunk file and the final waveform of the session carry that rate
C28_OneRatePerSession ==
  /\ rt.stream # "none" => rt.sample_rate = rt.stream_rate
  /\ \A x \in WrittenFiles : disk[x].rate = rt.stream_rate

\* a stopped session on the 8000 Hz device whose final waveform was written
C28_Witness ==
  /\ StopHasRun /\ HasFinished(emitted)
  /\ rt.stream_rate = 8000
  /\ \E x \in WrittenFiles : x.kind = "final" /\ disk[x].rate = 8000
  /\ io_fault = FALSE

(* ---------------------------- progress: claims ------------------------- *)
\* C29: in the split path the request for segment i comes after a progress
\* message that names segment i of n, and that message comes after the reply
\* to the request for segment i - 1
C29_ProgressBeforeRequest ==
  SplitPath =>
    \A p \in Events("request") :
      LET i == tr_log[p].seg
      IN  \E q \in Events("progress") :
            /\ q < p
            /\ tr_log[q].seg = i /\ tr_log[q].of = tr.num_chunks
            /\ i > 1 => \E r \in Events("reply") :
                          r < q /\ tr_log[r].seg = i - 1

\* the second of at least two segments has been requested
C29_Witness ==
  /\ SplitPath /\ tr.num_chunks >= 2
  /\ tr.pc = "wait_seg" /\ tr.i = 1
  /\ Cardinality(Events("request")) = 2

(* ------------------------- stopping order: claims ---------------------- *)
\* the steps of the last stop_recording call all saw the stream closed
StopStepsSawClosed(t) ==
  \A k \in 1..Len(t.stop_seen) : t.stop_seen[k].stream = "closed"

\* C30: a stop_recording call on a session whose stream was created closes
\* the stream before it flushes, reads the chunks or emits its signal, and
\* the stream is closed when it returns; once the stream is closed no
\* callback adds a batch to the session
C30_StreamClosedFirst ==
  [][ /\ (last_op' = "stop" /\ rt.stream # "none") =>
           /\ rt'.stream = "closed"
           /\ emitted' # <<>>
           /\ rt'.stop_seen # <<>>
           /\ rt'.stop_seen[Len(rt'.stop_seen)].step = "signal"
           /\ StopStepsSawClosed(rt')
      /\ (rt.stream = "closed" /\ last_op' # "start") =>
           /\ captured' = captured
           /\ Len(rt'.current_chunk) <= Len(rt.current_chunk)
           /\ rt'.stream = "closed" ]_vars

\* a stop that flushed the trailing chunk, read the chunks and signalled
C30_Witness ==
  /\ StopHasRun /\ HasFinished(emitted)
  /\ Len(rt.stop_seen) = 3
  /\ rt.stop_seen[1].step = "flush" /\ rt.stop_seen[2].step = "read"
  /\ StopStepsSawClosed(rt)

(* --------------------------- stream errors: claims --------------------- *)
\* C31: when the device reports a stream error to a session that is Recording
\* or Paused, the error signal is emitted, the session stops recording, the
\* chunk files flushed so far stay on disk, and no later callback adds a batch
C31_StreamErrorFailsSession ==
  [][ /\ (last_op' = "callback_status"
          /\ SessionState(rt) \in {"Recording", "Paused"}) =>
           /\ \E i \in 1..Len(emitted') : emitted'[i].sig = "error"
           /\ ~rt'.recording
           /\ \A i \in 1..Len(rt.chunk_files) :
                rt.chunk_files[i] \in DOMAIN disk'
      /\ (last_op = "callback_status"
          /\ last_op' \in {"callback", "callback_status"}) =>
           captured' = captured ]_vars

(* --------------------------- scenarios: claims ------------------------- *)
\* C32: no chunk is flushed while the audio accumulated for it is below 60 s:
\* a chunk file written before stop_recording holds at least 60 s; a
\* recording below 60 s therefore has no chunk file until it is stopped, and
\* its final waveform, when at least 0.5 s long, is the capture unpadded
C32_NoFlushBelowSixtySeconds ==
  /\ rt.stream = "active" =>
       \A x \in ChunkFilesOnDisk :
         NumFrames(disk[x].runs) >= FlushSeconds * disk[x].rate
  /\ (last_op = "stop" /\ HasFinished(emitted) /\ ~io_fault
      /\ NumFrames(captured) < FlushSeconds * rt.sample_rate
      /\ 2 * NumFrames(captured) >= rt.sample_rate) =>
       disk[rt.temp_file_path].runs = captured

\* a final waveform of 30 MB of samples (mono, 16 bit)
ThirtyMB == 2 * tr.file.frames * DefaultChannels = 30 * MB

\* the k-th request of the history is the request for segment k
RequestsInSegmentOrder ==
  \A p \in Events("request") :
    tr_log[p].seg = Cardinality({q \in Events("request") : q <= p})

\* C33 as stated: a 30 MB final waveform whose transcription succeeds was cut
\* into exactly 2 segments and sent in exactly two requests, segment 1 then
\* segment 2, and the transcript emitted is the two texts joined by a space
C33_AsStated ==
  (version = "simple" /\ ThirtyMB /\ Succeeded) =>
    /\ tr.num_chunks = 2
    /\ Cardinality(Events("request")) = 2
    /\ RequestsInSegmentOrder
    /\ \A p \in Events("finished") : tr_log[p].text = SpaceJoin(ReplyTexts(tr_log))

\* C33: in whisper_notepad_simple.py a final waveform over the ceiling whose
\* transcription succeeds was cut into as many 5-minute segments as its
\* duration needs (the n with (n-1) * 300 s < duration <= n * 300 s: 2 for
\* 30 MB at 48000 Hz, 4 at 16000 Hz), one request was issued per segment in
\* segment order, and the transcript emitted is the texts joined by spaces
C33_SegmentsByDuration ==
  (version = "simple" /\ SplitPath /\ Succeeded) =>
    LET full == 5 * 60 * tr.file.rate
        n    == tr.num_chunks
    IN  /\ (n - 1) * full < tr.file.frames
        /\ tr.file.frames <= n * full
        /\ Len(plan) = n
        /\ Cardinality(Events("request")) = n
        /\ RequestsInSegmentOrder
        /\ \A p \in Events("finished") :
             tr_log[p].text = SpaceJoin(ReplyTexts(tr_log))
        /\ (ThirtyMB /\ tr.file.rate = 48000) => n = 2
        /\ (ThirtyMB /\ tr.file.rate = 16000) => n = 4

\* C33 witness: a 30 MB waveform at 48000 Hz was sent in two requests and
\* the transcript "a b" was emitted
C33_Witness ==
  /\ version = "simple" /\ ThirtyMB /\ tr.file.rate = 48000 /\ Succeeded
  /\ Len(plan) = 2
  /\ ReplyTexts(tr_log) = << <<"a">>, <<"b">> >>
  /\ \E p \in Events("finished") : tr_log[p].text = <<"a", " ", "b">>

\* the call has emitted finished or error
Ended == Events("finished") # {} \/ Events("error") # {}

\* C34: when every request and every encoder call returns, a transcribe call
\* eventually emits finished or error; once it has, it issues no further
\* request; and it never requests the same segment twice (no retry)
C34_TranscribeEnds ==
  /\ <>(tr.pc = "done" /\ Ended)
  /\ [][Ended => Events("request")' = Events("request")]_vars
  /\ [](\A p, q \in Events("request") :
          tr_log[p].seg = tr_log[q].seg => p = q)

\* C34 witness: a split transcription whose second request failed has ended
\* with an error after two requests, with two segments never requested
C34_Witness ==
  /\ tr.pc = "done" /\ SplitPath /\ Events("error") # {}
  /\ tr.num_chunks = 4
  /\ Cardinality(Events("request")) = 2

\* The size ffmpeg gives its output for '-b:a <kbps>k': at most kbps * 1000
\* bits for every second begun
mp3_bytes(frames, rate, kbps) == ((frames \div rate) + 1) * kbps * 125

\* the size of the file opened for the request of plan entry p
SentBytes(p) ==
  IF p.kind = "compressed" THEN mp3_bytes(p.frames, tr.file.rate, p.bitrate)
  ELSE p.bytes

\* C35: at each of the rates the recorder negotiates, every file handed to
\* the transcription service, the direct-path file or a segment, compressed
\* or sent as written when compression fell back, is at most 25 MB
C35_SentFilesUnderServiceLimit ==
  tr.file.rate \in Range(common_rates) =>
    \A j \in 1..Len(plan) : SentBytes(plan[j]) <= 25 * MB

(* ------------------------------ window: claims -------------------------- *)
\* C36: when stop_recording has ended, with finished or with an error, the
\* window holds no recording thread any more and has left the recording
\* state, so that the next Record action starts a new session
C36_StopFreesRecorder ==
  (last_op = "stop" /\ emitted # <<>>) =>
    /\ ~ui.recording_thread
    /\ ~ui.is_recording

\* the TranscriptionThread.transcribe runs created and not yet ended
InFlight == {th \in ui.threads : th.kind = "transcription"}

\* C37: one Stop or Stop & Transcribe action registers at most one deferred
\* start of a transcription, also with Auto-Transcribe checked, and at no
\* time are two transcribe runs in flight for the same final waveform
C37_OneTranscriptionPerStop ==
  /\ [][last_op' = "stop" => Len(ui'.timers) <= Len(ui.timers) + 1]_vars
  /\ [](\A a, b \in InFlight : a.file = b.file => a = b)

\* the waveform files on disk, those of earlier sessions included
Waveforms == {x \in DOMAIN disk : x.kind = "final"} \cup stale

\* C38: when a GPT cleanup finishes, the only waveform file deleted is the
\* one whose transcript was cleaned, and temp_audio_file is cleared only if
\* it names that file: the file of a recording finished in the meantime is
\* neither deleted nor forgotten
C38_CleanupDeletesItsOwnFile ==
  [][last_op' = "cleanup_ends" =>
       \A th \in ui.threads \ ui'.threads :
         /\ (Waveforms \ Waveforms') \subseteq {th.file}
         /\ ui'.temp_audio_file # ui.temp_audio_file =>
              ui.temp_audio_file = th.file]_vars

\* C39: when the timer of a Stop & Transcribe fires, a transcription it
\* starts is for the final waveform of the stop that registered it; when
\* that stop ended in an error and produced none, no transcription starts
C39_TranscribesTheStoppedRecording ==
  [][(last_op' = "timer" /\ Head(ui.timers).call = "check_and_transcribe") =>
       \A th \in ui'.threads \ ui.threads :
         th.file = Head(ui.timers).stopped]_vars

====
